---- MODULE Spec2Model ----
(***************************************************************************)
(* SyncLyrics backend (synclyrics/backend/main.py): the reconciliation     *)
(* loop monitor_ha_state, the lyric cache fetch_lyrics and the websocket   *)
(* registry ConnectionManager, as one state machine.                       *)
(*                                                                         *)
(* Conventions.  A Python value that may be None is a sequence of length   *)
(* at most one: <<>> is None and <<v>> is v.  A Python str whose           *)
(* characters matter (artist, title, song key, file name, lyrics) is a     *)
(* sequence of one-character strings; "CR" and "LF" stand for \r and \n.   *)
(* Positions and times are whole seconds.  An `await` is a point where     *)
(* the other coroutines of the event loop may run: an action is the code   *)
(* between two such points.                                                *)
(***************************************************************************)
EXTENDS Integers, Sequences, FiniteSets, TLC

VARIABLES
    HA_TOKEN,             \* bool(os.getenv("SUPERVISOR_TOKEN")), fixed at import
    current_state,        \* the module global: [song, options]
    active_connections,   \* manager.active_connections, a list of websockets
    cache,                \* the files of CACHE_DIR: file name -> characters on disk
    last_song_key,        \* monitor_ha_state locals that live across ticks
    last_broadcast_pos,
    last_broadcast_state,
    last_options,
    pc,                   \* where monitor_ha_state is suspended
    current_options,      \* monitor_ha_state locals of the current tick
    options_changed,
    snap,                 \* title, artist, state, raw_pos, updated_at, current_pos of the tick
    message,              \* the message broadcast() is sending, <<>> when none
    bidx,                 \* how many list elements broadcast()'s for loop has taken
    ws_pc,                \* per websocket: where websocket_endpoint is suspended
    ws_open,              \* per websocket: the client side is still connected
    \* history variables (read by no action guard)
    emitted,              \* what the current tick has emitted: "none", "update", "sync"
    outcome,              \* which way the latest tick went
    steady,               \* ticks of steady playback in a row since the last update
    provided,             \* file name -> what the provider returned when it was cached
    provider_failed,      \* file names whose latest provider search gave no lyrics
    last_update,          \* metadata and options of the latest update broadcast
    first_msg,            \* per websocket: type of the first message received
    bc_start,             \* websockets registered when the latest tick's broadcast began
    bc_delivered,         \* websockets it delivered the message to
    bc_failed             \* websockets whose send raised in it

vars == <<HA_TOKEN, current_state, active_connections, cache, last_song_key,
          last_broadcast_pos, last_broadcast_state, last_options, pc,
          current_options, options_changed, snap, message, bidx, ws_pc, ws_open,
          emitted, outcome, steady, provided, provider_failed, last_update,
          first_msg, bc_start, bc_delivered, bc_failed>>

loop_vars == <<current_state, cache, last_song_key, last_broadcast_pos,
               last_broadcast_state, last_options, pc, current_options,
               options_changed, snap, message, bidx, emitted, outcome, steady,
               provided, provider_failed, last_update>>

bc_hist == <<bc_start, bc_delivered, bc_failed>>

recv_hist == <<first_msg>>

sub_vars == <<active_connections, ws_pc, ws_open>>

----------------------------------------------------------------------------
(* Bounds of the model *)

\* Largest media_position the state source reports.
MaxPos == 5
\* Largest age (now - media_position_updated_at) of a reported position.
MaxAge == 1
\* The history counter `steady` stops counting here.
MaxSteady == 4
\* Websockets that may ever connect.
NumSockets == 3

(* Program constants *)

\* time_passed = 1.0
TimePassed == 1
\* is_seeking = abs(...) > 2.0
SeekThreshold == 2
\* last_broadcast_pos = -1
InitialBroadcastPos == -1

----------------------------------------------------------------------------
(* Python values *)

None == <<>>
Some(v) == <<v>>
\* Python's None as a playback state (state_data.get("state") of a str, or None).
NoState == "None"

\* `x or 0` for a position that may be None (0 is falsy as well, and stays 0).
Or0(p) == IF p = None THEN 0 ELSE p[1]

Abs(x) == IF x < 0 THEN -x ELSE x

Range(s) == {s[i] : i \in 1..Len(s)}

\* list.remove(x): the first occurrence is dropped, the rest shift left.
RECURSIVE Remove(_, _)
Remove(s, x) ==
    IF s = <<>> THEN <<>>
    ELSE IF Head(s) = x THEN Tail(s)
    ELSE <<Head(s)>> \o Remove(Tail(s), x)

----------------------------------------------------------------------------
(* Strings *)

\* str.lower() on the characters of the model.
LowerChar(c) ==
    CASE c = "A" -> "a"
      [] c = "B" -> "b"
      [] c = "X" -> "x"
      [] c = "Y" -> "y"
      [] OTHER -> c

\* s.replace(" ", "_").lower()
FileSafe(s) == [i \in 1..Len(s) |-> LowerChar(IF s[i] = " " THEN "_" ELSE s[i])]

\* song_key = f"{artist}_{title}"
SongKey(artist, title) == artist \o <<"_">> \o title

\* filename = f"{artist}_{title}".replace(" ", "_").lower() + ".lrc"
CacheFileName(artist, title) ==
    FileSafe(artist \o <<"_">> \o title) \o <<".", "l", "r", "c">>

\* os.path.join(CACHE_DIR, filename) names a file directly in CACHE_DIR only when
\* filename holds no path separator; CACHE_DIR is the only directory the program
\* ever creates, so any other path has no parent directory to be created in.
InCacheDir(filename) == \A i \in 1..Len(filename) : filename[i] # "/"

\* f.write(lyrics) in text mode, newline=None, on POSIX: "\n" is written as
\* os.linesep, which is "\n"; every other character as it is.
WriteText(s) == s

\* f.read() in text mode, newline=None (universal newlines): "\r\n" and a lone
\* "\r" are both read as "\n".
RECURSIVE ReadText(_)
ReadText(b) ==
    IF b = <<>> THEN <<>>
    ELSE IF Head(b) = "CR"
         THEN <<"LF">> \o ReadText(IF Len(b) >= 2 /\ b[2] = "LF"
                                    THEN Tail(Tail(b)) ELSE Tail(b))
         ELSE <<Head(b)>> \o ReadText(Tail(b))

----------------------------------------------------------------------------
(* The pure steps of a tick *)

\* options_changed = last_options is not None and current_options != last_options
OptionsChanged(last, cur) == last # None /\ Some(cur) # last

\* diff = time.time() - parse_ha_time(updated_at): the age of the report when the
\* string parses; parse_ha_time answers time.time() when it does not, so diff is 0.
Drift(updated_at) == IF updated_at.kind = "iso" THEN updated_at.age ELSE 0

\* The estimate without the test of the playback state: a paused track advances.
EstimateAnyState(state, raw_pos, updated_at) ==
    IF raw_pos # None /\ updated_at.kind # "absent"
    THEN Some(raw_pos[1] + Drift(updated_at))
    ELSE raw_pos

\* current_pos = raw_pos, advanced by diff when playing with both inputs present
\* (`updated_at` is falsy when it is None or "").
EstimatePos(state, raw_pos, updated_at) ==
    IF state = "playing" /\ raw_pos # None /\ updated_at.kind # "absent"
    THEN Some(raw_pos[1] + Drift(updated_at))
    ELSE raw_pos

\* last_broadcast_pos + time_passed raises TypeError when last_broadcast_pos is None.
ExpectedPosRaises(lpos, lstate) == lstate = "playing" /\ lpos = None

\* expected_pos = last_broadcast_pos + time_passed if last_broadcast_state == "playing"
\*                else last_broadcast_pos
ExpectedPos(lpos, lstate) ==
    IF lstate = "playing" THEN Some(lpos[1] + TimePassed) ELSE lpos

\* is_seeking = abs((current_pos or 0) - (expected_pos or 0)) > 2.0
IsSeeking(cur, exp) == Abs(Or0(cur) - Or0(exp)) > SeekThreshold

\* is_state_change = state != last_broadcast_state
IsStateChange(state, lstate) == state # lstate

\* `if lyrics is not None:`, which takes "" for lyrics.
IsNotNone(lyrics) == lyrics # None

\* `if lyrics:` -- None and "" are both falsy.
Truthy(lyrics) == lyrics # None /\ lyrics[1] # <<>>

\* The provider gave no lyrics: search() returned None (no match, or an exception
\* it caught) or an empty text.
NoMatch(lyrics) == lyrics = None \/ lyrics[1] = <<>>

\* `if title is not None:`, which takes "" for a title; the model's <<>> stands
\* for both None and "".
AnyTitle(title) == TRUE

\* `if not title: pass` -- the tick goes on only with a title that is not falsy.
HasTitle(title) == title # <<>>

\* The local variables title, artist, state, raw_pos, updated_at, current_pos
\* after lines 226-235.
Locals(body) ==
    [title |-> body.title, artist |-> body.artist, state |-> body.state,
     raw_pos |-> body.raw_pos, updated_at |-> body.updated_at,
     current_pos |-> EstimatePos(body.state, body.raw_pos, body.updated_at)]

\* song_info, with the fields that are copied through unread (album, image,
\* duration) left out.
SongInfo(sn, lyrics) ==
    [title |-> sn.title, artist |-> sn.artist, position |-> sn.current_pos,
     state |-> sn.state, lyrics |-> lyrics]

\* What an update says about the song apart from where playback is.
Metadata(song) == [title |-> song.title, artist |-> song.artist, lyrics |-> song.lyrics]

\* The update built with the options stored before this tick stored its own.
UpdateMessageStoredOptions(song, opts) ==
    [type |-> "update", data |-> song,
     options |-> IF current_state.options = None THEN opts
                 ELSE current_state.options[1]]

UpdateMessage(song, opts) == [type |-> "update", data |-> song, options |-> opts]

SyncMessage(pos, state) ==
    [type |-> "sync", data |-> [position |-> pos, state |-> state]]

----------------------------------------------------------------------------
(* ConnectionManager.broadcast *)

Sockets == 1..NumSockets

\* A websocket receives message m.
Deliver(c, m) ==
    first_msg' = [first_msg EXCEPT ![c] = IF @ = "none" THEN m.type ELSE @]

\* `except Exception: pass`: after a send that raised, broadcast() is still in its
\* for loop.
OnSendError == "bcast"

\* One turn of `for connection in self.active_connections`, the list iterator
\* having taken i elements: it ends when i has reached the length the list has
\* now, and otherwise takes element i (0-based) of the list as it is now and
\* sends to it, up to the suspension in send_text.  A send to a websocket whose
\* client is gone raises.
BroadcastFrom(m, i, delivered, failed) ==
    /\ message' = Some(m)
    /\ IF i < Len(active_connections)
       THEN LET c == active_connections[i + 1] IN
            IF ws_open[c]
            THEN /\ Deliver(c, m)
                 /\ pc' = "bcast"
                 /\ bidx' = i + 1
                 /\ bc_delivered' = delivered \cup {c}
                 /\ bc_failed' = failed
            ELSE /\ UNCHANGED recv_hist
                 /\ pc' = OnSendError
                 /\ bidx' = IF OnSendError = "bcast" THEN i + 1 ELSE 0
                 /\ bc_delivered' = delivered
                 /\ bc_failed' = failed \cup {c}
       ELSE /\ UNCHANGED recv_hist
            /\ pc' = "tick"
            /\ bidx' = 0
            /\ bc_delivered' = delivered
            /\ bc_failed' = failed

\* broadcast() is called: nothing runs between the call and its first send.
BroadcastStart(m) ==
    /\ bc_start' = Range(active_connections)
    /\ BroadcastFrom(m, 0, {}, {})

\* broadcast() resumes after the send it was suspended in.
BroadcastResume ==
    /\ pc = "bcast"
    /\ BroadcastFrom(message[1], bidx, bc_delivered, bc_failed)
    /\ UNCHANGED <<HA_TOKEN, current_state, cache, last_song_key, last_broadcast_pos,
                   last_broadcast_state, last_options, current_options,
                   options_changed, snap, emitted, outcome, steady, provided,
                   provider_failed, last_update, sub_vars, bc_start>>

----------------------------------------------------------------------------
(* monitor_ha_state *)

\* A tick that, ending without a message, forgets the stored song.
AbortForgetting(out) ==
    /\ pc' = "tick"
    /\ emitted' = "none"
    /\ outcome' = out
    /\ bc_start' = {} /\ bc_delivered' = {} /\ bc_failed' = {}
    /\ current_state' = [current_state EXCEPT !.song = None]
    /\ last_song_key' = None
    /\ UNCHANGED <<last_broadcast_pos, last_broadcast_state, message, bidx,
                   last_update, recv_hist>>

\* The same with the `except` outside the `while`: an exception ends the loop.
AbortStopping(out) ==
    /\ pc' = IF out = "exception" THEN "stopped" ELSE "tick"
    /\ emitted' = "none"
    /\ outcome' = out
    /\ bc_start' = {} /\ bc_delivered' = {} /\ bc_failed' = {}
    /\ UNCHANGED <<current_state, last_song_key, last_broadcast_pos,
                   last_broadcast_state, message, bidx, last_update, recv_hist>>

\* The same with last_broadcast_pos following the position on a silent tick.
AbortAdvancing(out) ==
    /\ pc' = "tick"
    /\ emitted' = "none"
    /\ outcome' = out
    /\ bc_start' = {} /\ bc_delivered' = {} /\ bc_failed' = {}
    /\ last_broadcast_pos' =
           IF out = "silent" THEN snap'.current_pos ELSE last_broadcast_pos
    /\ UNCHANGED <<current_state, last_song_key, last_broadcast_state, message,
                   bidx, last_update, recv_hist>>

\* The tick ends with nothing emitted and the authoritative state untouched.
Abort(out) ==
    /\ pc' = "tick"
    /\ emitted' = "none"
    /\ outcome' = out
    /\ bc_start' = {} /\ bc_delivered' = {} /\ bc_failed' = {}
    /\ UNCHANGED <<current_state, last_song_key, last_broadcast_pos,
                   last_broadcast_state, message, bidx, last_update, recv_hist>>

\* Lines 249-272: the new song_info replaces the stored one and is broadcast.
PublishUpdate(sn, opts, lyrics) ==
    LET song_info == SongInfo(sn, lyrics) IN
    /\ current_state' = [song |-> Some(song_info), options |-> Some(opts)]
    /\ last_song_key' = Some(SongKey(sn.artist, sn.title))
    /\ last_broadcast_pos' = sn.current_pos
    /\ last_broadcast_state' = sn.state
    /\ emitted' = "update"
    /\ outcome' = "update"
    /\ steady' = IF sn.state = "playing" /\ sn.current_pos # None THEN 0 ELSE -1
    /\ last_update' = Some([data |-> Metadata(UpdateMessage(song_info, opts).data),
                             options |-> UpdateMessage(song_info, opts).options])
    /\ BroadcastStart(UpdateMessage(song_info, opts))

\* The history counter: this same-song tick continues a run of steady playback
\* (same song, playing before and now, one second further than the tick before).
SteadyNext(sn) ==
    IF /\ steady >= 0
       /\ snap.state = "playing" /\ sn.state = "playing"
       /\ SongKey(snap.artist, snap.title) = SongKey(sn.artist, sn.title)
       /\ snap.current_pos # None /\ sn.current_pos # None
       /\ sn.current_pos[1] = snap.current_pos[1] + TimePassed
    THEN IF steady < MaxSteady THEN steady + 1 ELSE MaxSteady
    ELSE -1

\* Lines 241-247: the song-change branch up to the lyric lookup.  A cache hit
\* returns the file's text without suspending; a miss suspends in
\* run_in_executor while the provider is searched.
UpdateBranch(sn, opts) ==
    LET filename == CacheFileName(sn.artist, sn.title) IN
    IF filename \in DOMAIN cache
    THEN /\ PublishUpdate(sn, opts, Some(ReadText(cache[filename])))
         /\ UNCHANGED <<cache, provided, provider_failed>>
    ELSE /\ pc' = "fetch"
         /\ emitted' = "none"
         /\ outcome' = "fetching"
         /\ steady' = -1
         /\ UNCHANGED <<current_state, cache, provided, provider_failed,
                        last_song_key, last_broadcast_pos, last_broadcast_state,
                        message, bidx, last_update, recv_hist, bc_hist>>

\* Lines 273-290: the same-song branch.
SameSongBranch(sn) ==
    IF ExpectedPosRaises(last_broadcast_pos, last_broadcast_state)
    THEN /\ Abort("exception")
         /\ steady' = -1
         /\ UNCHANGED <<cache, provided, provider_failed>>
    ELSE LET expected_pos == ExpectedPos(last_broadcast_pos, last_broadcast_state)
             is_seeking == IsSeeking(sn.current_pos, expected_pos)
             is_state_change == IsStateChange(sn.state, last_broadcast_state)
         IN
         /\ steady' = SteadyNext(sn)
         /\ UNCHANGED <<cache, provided, provider_failed>>
         /\ IF is_seeking \/ is_state_change
            THEN /\ current_state' =
                        IF current_state.song # None
                        THEN [current_state EXCEPT !.song =
                                 Some([@[1] EXCEPT !.position = sn.current_pos,
                                                   !.state = sn.state])]
                        ELSE current_state
                 /\ last_broadcast_pos' = sn.current_pos
                 /\ last_broadcast_state' = sn.state
                 /\ emitted' = "sync"
                 /\ outcome' = "sync"
                 /\ UNCHANGED <<last_song_key, last_update>>
                 /\ BroadcastStart(SyncMessage(sn.current_pos, sn.state))
            ELSE Abort("silent")

\* One tick from the top of the loop (line 210) to its first suspension that
\* matters: get_options() returns o and the state source answers r.
Poll(o, r) ==
    /\ pc = "tick"
    /\ last_options' = Some(o)
    /\ current_options' = Some(o)
    /\ options_changed' = OptionsChanged(last_options, o)
    /\ UNCHANGED <<HA_TOKEN, sub_vars>>
    /\ IF ~HA_TOKEN
       THEN /\ Abort("no_token")
            /\ steady' = -1
            /\ UNCHANGED <<snap, cache, provided, provider_failed>>
       ELSE IF ~r.ok
       THEN /\ Abort("http_error")
            /\ steady' = -1
            /\ UNCHANGED <<snap, cache, provided, provider_failed>>
       ELSE LET sn == Locals(r.body) IN
            /\ snap' = sn
            /\ IF ~HasTitle(sn.title)
               THEN /\ Abort("no_title")
                    /\ steady' = -1
                    /\ UNCHANGED <<cache, provided, provider_failed>>
               ELSE IF \/ Some(SongKey(sn.artist, sn.title)) # last_song_key
                       \/ OptionsChanged(last_options, o)
               THEN UpdateBranch(sn, o)
               ELSE SameSongBranch(sn)

\* fetch_lyrics resumes with the provider's answer (lines 185-191): a truthy
\* answer is written to the cache file and returned, anything else gives None.
\* open(cache_path, 'w') raises when the path is not directly in CACHE_DIR; the
\* exception leaves fetch_lyrics and is caught at line 293.
FetchReturn(lyrics) ==
    /\ pc = "fetch"
    /\ UNCHANGED <<HA_TOKEN, sub_vars, last_options, current_options,
                   options_changed, snap>>
    /\ provider_failed' =
           IF NoMatch(lyrics)
           THEN provider_failed \cup {CacheFileName(snap.artist, snap.title)}
           ELSE provider_failed \ {CacheFileName(snap.artist, snap.title)}
    /\ LET filename == CacheFileName(snap.artist, snap.title) IN
       IF Truthy(lyrics)
       THEN IF InCacheDir(filename)
            THEN /\ cache' = [f \in DOMAIN cache \cup {filename} |->
                                 IF f = filename THEN WriteText(lyrics[1])
                                 ELSE cache[f]]
                 /\ provided' = [f \in DOMAIN provided \cup {filename} |->
                                    IF f = filename THEN lyrics[1] ELSE provided[f]]
                 /\ PublishUpdate(snap, current_options[1], lyrics)
            ELSE /\ Abort("exception")
                 /\ steady' = -1
                 /\ UNCHANGED <<cache, provided>>
       ELSE /\ PublishUpdate(snap, current_options[1], None)
            /\ UNCHANGED <<cache, provided>>

----------------------------------------------------------------------------
(* websocket_endpoint and ConnectionManager.connect / disconnect *)

\* `await websocket.accept()`: the handshake with a client that is there completes.
\* Websockets are numbered in the order of their handshakes.
Handshake(s) ==
    /\ ws_pc[s] = "new"
    /\ \A t \in Sockets : t < s => ws_pc[t] # "new"
    /\ ws_open[s]
    /\ ws_pc' = [ws_pc EXCEPT ![s] = "accepted"]
    /\ UNCHANGED <<HA_TOKEN, loop_vars, active_connections, ws_open, recv_hist,
                   bc_hist>>

\* connect() resumes after accept(): the websocket is appended and, when a song
\* is stored, sent the stored state.  send_text raises when the client has gone
\* in the meantime; connect() is called outside websocket_endpoint's try, so the
\* exception ends the endpoint without disconnect().
Register(s) ==
    /\ ws_pc[s] = "accepted"
    /\ active_connections' = Append(active_connections, s)
    /\ IF current_state.song # None
       THEN IF ws_open[s]
            THEN /\ Deliver(s, UpdateMessage(current_state.song[1],
                                             current_state.options[1]))
                 /\ ws_pc' = [ws_pc EXCEPT ![s] = "receive"]
            ELSE /\ ws_pc' = [ws_pc EXCEPT ![s] = "failed"]
                 /\ UNCHANGED recv_hist
       ELSE /\ ws_pc' = [ws_pc EXCEPT ![s] = "receive"]
            /\ UNCHANGED recv_hist
    /\ UNCHANGED <<HA_TOKEN, loop_vars, ws_open, bc_hist>>

\* The client closes the connection, or the network drops it.
ClientClose(s) ==
    /\ ws_pc[s] \in {"accepted", "receive"}
    /\ ws_open[s]
    /\ ws_open' = [ws_open EXCEPT ![s] = FALSE]
    /\ UNCHANGED <<HA_TOKEN, loop_vars, active_connections, ws_pc, recv_hist,
                   bc_hist>>

\* manager.disconnect(websocket)
Disconnected(conns, s) == IF s \in Range(conns) THEN Remove(conns, s) ELSE conns

\* receive_text() raises for a closed connection and the endpoint calls
\* manager.disconnect (lines 331-334).
Disconnect(s) ==
    /\ ws_pc[s] = "receive"
    /\ ~ws_open[s]
    /\ active_connections' = Disconnected(active_connections, s)
    /\ ws_pc' = [ws_pc EXCEPT ![s] = "closed"]
    /\ UNCHANGED <<HA_TOKEN, loop_vars, ws_open, recv_hist, bc_hist>>

----------------------------------------------------------------------------
(* Inputs *)

\* Two contents of /data/options.json.
AllOptions == {[show_header |-> TRUE], [show_header |-> FALSE]}

Positions == 0..MaxPos

RawPositions == {None} \cup {Some(p) : p \in Positions}

UpdatedAts ==
    {[kind |-> "absent", age |-> 0], [kind |-> "unparseable", age |-> 0]}
        \cup {[kind |-> "iso", age |-> a] : a \in 0..MaxAge}

PlayStates == {"playing", "paused"}

\* Answers of the state source: a failure (a status other than 200, or an
\* exception of the request), or a state object.
Responses(tracks, positions, updated_ats) ==
    {[ok |-> FALSE]} \cup
    {[ok |-> TRUE,
      body |-> [title |-> t.title, artist |-> t.artist, state |-> st,
                raw_pos |-> p, updated_at |-> u]] :
        t \in tracks, st \in PlayStates, p \in positions, u \in updated_ats}

\* Answers of syncedlyrics.search (None also when search() caught an exception).
ProviderAnswers ==
    {None, Some(<<>>), Some(<<"l", "LF">>), Some(<<"l", "CR", "LF">>)}

----------------------------------------------------------------------------
(* Specifications *)

\* A song key kept from an earlier run of the loop.
StaleSongKey == <<<<"x", "_", "a">>>>

\* last_song_key = None
InitialSongKey == <<>>

NoSnap ==
    [title |-> <<>>, artist |-> <<>>, state |-> NoState, raw_pos |-> None,
     updated_at |-> [kind |-> "absent", age |-> 0], current_pos |-> None]

NoFiles == [f \in {} |-> <<>>]

Init ==
    /\ HA_TOKEN \in BOOLEAN
    /\ current_state = [song |-> None, options |-> None]
    /\ active_connections = <<>>
    /\ cache = NoFiles
    /\ last_song_key = InitialSongKey
    /\ last_broadcast_pos = Some(InitialBroadcastPos)
    /\ last_broadcast_state = NoState
    /\ last_options = None
    /\ pc = "tick"
    /\ current_options = None
    /\ options_changed = FALSE
    /\ snap = NoSnap
    /\ message = None
    /\ bidx = 0
    /\ ws_pc = [s \in Sockets |-> "new"]
    /\ ws_open = [s \in Sockets |-> TRUE]
    /\ emitted = "none"
    /\ outcome = "init"
    /\ steady = -1
    /\ provided = NoFiles
    /\ provider_failed = {}
    /\ last_update = None
    /\ first_msg = [s \in Sockets |-> "none"]
    /\ bc_start = {}
    /\ bc_delivered = {}
    /\ bc_failed = {}

\* monitor_ha_state with the inputs it is given: the contents of the options
\* file, the answers of the state source and the answers of the lyric provider.
Loop(options, responses, answers) ==
    \/ \E o \in options, r \in responses : Poll(o, r)
    \/ \E l \in answers : FetchReturn(l)

\* The websocket clients.
Clients(sockets) ==
    \E s \in sockets : Handshake(s) \/ Register(s) \/ ClientClose(s) \/ Disconnect(s)

\* A report whose position was taken at the moment of the request.
Fresh == {[kind |-> "iso", age |-> 0]}

OneOption == {[show_header |-> TRUE]}

NoTrack == [artist |-> <<"x">>, title |-> <<>>]
TrackA == [artist |-> <<"x">>, title |-> <<"a">>]
TrackB == [artist |-> <<"x">>, title |-> <<"b">>]
\* A track of an artist whose name holds a slash.
TrackSlash == [artist |-> <<"x", "/", "y">>, title |-> <<"a">>]
\* TrackA as a player may report it with other letter case or padding.
TrackAUpper == [artist |-> <<"X">>, title |-> <<"a">>]
TrackAPadded == [artist |-> <<" ", "x">>, title |-> <<"a">>]

Lrc == <<"l", "LF">>
LrcCrLf == <<"l", "CR", "LF">>

\* The reconciliation loop with no websocket client: every position and
\* playback state of two tracks, two contents of the options file.
Next ==
    Loop(AllOptions, Responses({NoTrack, TrackA, TrackB}, RawPositions, Fresh),
         {None, Some(Lrc)})

Spec == Init /\ [][Next]_vars

\* The lyric cache: three tracks at one position, every answer of the provider.
NextCache ==
    Loop(OneOption, Responses({TrackA, TrackB, TrackSlash}, {Some(0)}, Fresh),
         ProviderAnswers)

SpecCache == Init /\ [][NextCache]_vars

\* The song key: one track reported with different case and padding.
NextKey ==
    Loop(OneOption,
         Responses({TrackA, TrackAUpper, TrackAPadded}, {Some(0)}, Fresh),
         {None, Some(Lrc)})

SpecKey == Init /\ [][NextKey]_vars

\* The registry: the websocket clients beside a loop that follows one track.
NextRegistry ==
    \/ Loop(OneOption, Responses({TrackA}, {Some(0)}, Fresh), {None})
    \/ BroadcastResume
    \/ Clients(Sockets)

SpecRegistry == Init /\ [][NextRegistry]_vars

\* The position estimate: one track with every reported position and timestamp.
NextEstimate ==
    Loop(OneOption, Responses({TrackA}, RawPositions, UpdatedAts), {None})

SpecEstimate == Init /\ [][NextEstimate]_vars

\* One websocket client beside a loop that follows one track at two positions.
NextFrame ==
    \/ Loop(OneOption, Responses({TrackA}, {Some(0), Some(1)}, Fresh), {None})
    \/ BroadcastResume
    \/ Clients({1})

SpecFrame == Init /\ [][NextFrame]_vars

\* The ticks that raise: a track whose cache file cannot be written, snapshots
\* without a position.
NextErrors ==
    Loop(AllOptions, Responses({TrackA, TrackSlash}, {None, Some(0)}, Fresh),
         {None, Some(Lrc)})

SpecErrors == Init /\ [][NextErrors]_vars

\* The loop beside a provider that may never answer: the loop's own steps are
\* taken whenever it is not suspended (asyncio.sleep(1) and the state request
\* return), while nothing makes run_in_executor(None, search) return.
PollAny ==
    \E o \in OneOption, r \in Responses({TrackA, TrackB}, {Some(0), Some(MaxPos)}, Fresh) :
        Poll(o, r)

NextProvider == PollAny \/ \E l \in {None, Some(Lrc)} : FetchReturn(l)

SpecProvider == Init /\ [][NextProvider]_vars /\ WF_vars(PollAny)

----------------------------------------------------------------------------
(* Claims about the registry, checked under SpecRegistry *)

\* The latest tick has broadcast a message and broadcast() has returned.
BroadcastReturned == pc = "tick" /\ outcome \in {"update", "sync"}

Registered == Range(active_connections)

\* C1 (as claimed).  Late-join replay: when connect() resumes for a client that
\* is still there, the websocket is sent one update if a song is stored and
\* nothing if none is; and no websocket ever has a sync as the first message it
\* received.
C1_LateJoinReplay ==
    [][\A s \in Sockets :
          /\ (ws_pc[s] = "accepted" /\ ws_pc'[s] # "accepted" /\ ws_open[s]) =>
                 first_msg'[s] = (IF current_state.song # None THEN "update"
                                  ELSE "none")
          /\ first_msg'[s] # "sync"]_vars

\* C2 (as claimed, for a broadcast in which no send raised).  When
\* broadcast() has returned, every websocket that was registered when it began,
\* is registered still and whose client is still there has been sent the
\* message.
C2_BroadcastReachesAll ==
    (BroadcastReturned /\ bc_failed = {}) =>
        \A s \in bc_start :
            (s \in Registered /\ ws_open[s]) => s \in bc_delivered

\* C3 (as claimed).  When broadcast() has returned, no websocket whose send
\* raised in it is registered any more.
C3_FailedSubscriberRemoved ==
    BroadcastReturned => bc_failed \cap Registered = {}

\* C4 (as claimed, for a failing websocket that stays registered).  When
\* broadcast() has returned after a send that raised, every other websocket that
\* was registered when it began, is registered still and whose client is still
\* there has been sent the message.
C4_DeliveryIsolation ==
    (BroadcastReturned /\ bc_failed # {} /\ bc_failed \subseteq Registered) =>
        \A s \in bc_start \ bc_failed :
            (s \in Registered /\ ws_open[s]) => s \in bc_delivered

\* The part of C4 that holds: the same, for a broadcast during which no
\* websocket was unregistered.
DeliveryIsolationQuiescent ==
    (BroadcastReturned /\ bc_failed # {} /\ bc_start \subseteq Registered) =>
        (bc_start \ bc_failed) \subseteq bc_delivered

----------------------------------------------------------------------------
(* Claims about the reconciliation loop, checked without websocket clients *)

\* C5 (as claimed).  Steady playback is silent: a tick that continues a run of
\* steady playback (same song, playing, unchanged configuration, one second
\* further than the tick before, since the update that began the run) emits
\* nothing.
C5_SteadyPlaybackSilent == steady >= 1 => emitted = "none"

\* C6 (as claimed).  A tick that read a configuration other than the one the
\* tick before read has, when it ends, emitted an update with the new options
\* and stored them.
C6_ConfigChangeRebroadcast ==
    (pc = "tick" /\ options_changed) =>
        (emitted = "update" /\ current_state.options = current_options)

\* The expected position as the claim words it, None read as 0.
ClaimedExpectedPos ==
    Or0(last_broadcast_pos) + (IF last_broadcast_state = "playing" THEN 1 ELSE 0)

\* C7 (as claimed).  On a tick that observes the stored song with a non-empty
\* title and an unchanged configuration, a sync is emitted if and only if the
\* position is more than 2 off the expected one or the playback state differs
\* from the last broadcast one, and then the stored position and state and
\* last_broadcast_pos/last_broadcast_state are the new ones.
C7_SyncDecision ==
    [][(/\ pc = "tick"
        /\ outcome' \notin {"no_token", "http_error"}
        /\ snap'.title # <<>>
        /\ Some(SongKey(snap'.artist, snap'.title)) = last_song_key
        /\ ~options_changed')
       => LET due == \/ Abs(Or0(snap'.current_pos) - ClaimedExpectedPos) > 2
                     \/ snap'.state # last_broadcast_state
          IN /\ (emitted' = "sync") <=> due
             /\ emitted' # "update"
             /\ due => /\ current_state'.song[1].position = snap'.current_pos
                       /\ current_state'.song[1].state = snap'.state
                       /\ last_broadcast_pos' = snap'.current_pos
                       /\ last_broadcast_state' = snap'.state]_vars

\* The stored song is the one the tick observed, and an update was emitted.
UpdatedTo(sn, song, key, em) ==
    /\ em = "update"
    /\ key = Some(SongKey(sn.artist, sn.title))
    /\ song # None
    /\ song[1].title = sn.title
    /\ song[1].artist = sn.artist

\* C8 (as claimed).  A tick that observes a non-empty title whose song key is
\* not the stored one asks the lyric cache (the file, or else the provider) and,
\* once the lookup has returned, has replaced the stored song and emitted one
\* update and no sync.
C8_SongChangeHandling ==
    [][/\ (/\ pc = "tick"
           /\ outcome' \notin {"no_token", "http_error"}
           /\ snap'.title # <<>>
           /\ Some(SongKey(snap'.artist, snap'.title)) # last_song_key)
          => \/ pc' = "fetch"
             \/ UpdatedTo(snap', current_state'.song, last_song_key', emitted')
       /\ (/\ pc = "fetch"
           /\ pc' # "fetch"
           /\ Some(SongKey(snap.artist, snap.title)) # last_song_key)
          => UpdatedTo(snap, current_state'.song, last_song_key', emitted')]_vars

\* The part of C8 that holds: the same, for a cache file directly in CACHE_DIR.
SongChangeHandlingInCacheDir ==
    [][(/\ pc = "fetch"
        /\ pc' # "fetch"
        /\ InCacheDir(CacheFileName(snap.artist, snap.title)))
       => UpdatedTo(snap, current_state'.song, last_song_key', emitted')]_vars

\* The spec's SongKey normalisation: letters case-folded, leading, trailing and
\* repeated blanks dropped.
RECURSIVE DropLeading(_)
DropLeading(s) ==
    IF s # <<>> /\ Head(s) = " " THEN DropLeading(Tail(s)) ELSE s

RECURSIVE Squeeze(_)
Squeeze(s) ==
    IF s = <<>> THEN <<>>
    ELSE IF Head(s) = " "
         THEN IF DropLeading(s) = <<>> THEN <<>>
              ELSE <<" ">> \o Squeeze(DropLeading(s))
         ELSE <<LowerChar(Head(s))>> \o Squeeze(Tail(s))

Normalized(s) == Squeeze(DropLeading(s))

SameTrack(a, b) ==
    /\ Normalized(a.artist) = Normalized(b.artist)
    /\ Normalized(a.title) = Normalized(b.title)

\* C9 (as claimed).  When a tick observes the stored song of the tick before
\* with only letter case or blanks changed, both keys are the same as before
\* and the tick takes the same-song branch.
C9_SongKeyInsensitive ==
    [][(/\ pc = "tick"
        /\ outcome \in {"update", "silent", "sync"}
        /\ last_song_key = Some(SongKey(snap.artist, snap.title))
        /\ outcome' \notin {"no_token", "http_error"}
        /\ snap'.title # <<>>
        /\ SameTrack(snap, snap')
        /\ ~options_changed')
       => /\ SongKey(snap'.artist, snap'.title) = SongKey(snap.artist, snap.title)
          /\ CacheFileName(snap'.artist, snap'.title)
                 = CacheFileName(snap.artist, snap.title)
          /\ outcome' \in {"silent", "sync"}]_vars

\* C10 (as claimed).  Once the provider's answer for a file name is cached, a
\* fetch for it returns what the provider returned, the provider is not asked
\* again, and no cache file is changed or removed.
C10_CacheRoundTrip ==
    [][/\ (/\ pc = "tick"
           /\ outcome' = "update"
           /\ CacheFileName(snap'.artist, snap'.title) \in DOMAIN provided)
          => current_state'.song[1].lyrics
                 = Some(provided[CacheFileName(snap'.artist, snap'.title)])
       /\ pc' = "fetch"
          => CacheFileName(snap'.artist, snap'.title) \notin DOMAIN cache'
       /\ \A f \in DOMAIN cache : f \in DOMAIN cache' /\ cache'[f] = cache[f]]_vars

----------------------------------------------------------------------------
(* Claims about failures *)

\* C11.  No negative caching: when fetch_lyrics resumes from a provider search
\* that gave no lyrics, it returns None (the update carries no lyrics) and the
\* cache files are as before, with none for that file name; and a song change to
\* a file name whose latest search gave no lyrics searches the provider again.
C11_NoNegativeCaching ==
    [][/\ (/\ pc = "fetch"
           /\ pc' # "fetch"
           /\ CacheFileName(snap.artist, snap.title) \in provider_failed')
          => /\ emitted' = "update"
             /\ current_state'.song[1].lyrics = None
             /\ cache' = cache
             /\ CacheFileName(snap.artist, snap.title) \notin DOMAIN cache'
       /\ (/\ pc = "tick"
           /\ outcome' \notin {"no_token", "http_error"}
           /\ snap'.title # <<>>
           /\ Some(SongKey(snap'.artist, snap'.title)) # last_song_key
           /\ CacheFileName(snap'.artist, snap'.title) \in provider_failed)
          => pc' = "fetch"]_vars

\* The provider is searched again for a song whose latest search gave no lyrics.
C11_Witness ==
    /\ pc = "fetch"
    /\ CacheFileName(snap.artist, snap.title) \in provider_failed

\* The authoritative state: the stored song and options and the loop's memory
\* of what it broadcast last.
Authoritative ==
    <<current_state, last_song_key, last_broadcast_pos, last_broadcast_state>>

\* C12.  A tick on which the state source fails (a status other than 200, an
\* exception of the request or of reading its body) leaves the stored song and
\* options, the stored song key, last_broadcast_pos and last_broadcast_state as
\* they were and emits nothing, and the loop is at the start of its next tick.
C12_SourceFailureFrame ==
    [][(pc = "tick" /\ outcome' = "http_error")
       => /\ Authoritative' = Authoritative
          /\ emitted' = "none"
          /\ message' = message
          /\ pc' = "tick"]_vars

\* The state source has failed on a tick while a song was stored.
C12_Witness == outcome = "http_error" /\ current_state.song # None

\* C13.  A tick whose snapshot has no title (None or "") leaves the stored song,
\* the stored song key, last_broadcast_pos and last_broadcast_state as they were
\* and emits nothing, whatever the artist, position and playback state are.
C13_NoTitleSkipped ==
    [][(/\ pc = "tick"
        /\ outcome' \notin {"no_token", "http_error"}
        /\ snap'.title = <<>>)
       => /\ Authoritative' = Authoritative
          /\ emitted' = "none"
          /\ message' = message
          /\ pc' = "tick"]_vars

\* A snapshot without a title, playing at a position, has been observed while
\* another song was stored.
C13_Witness ==
    /\ outcome = "no_title"
    /\ snap.title = <<>>
    /\ snap.state = "playing"
    /\ snap.current_pos # None
    /\ current_state.song # None

\* C14.  The estimated position is the reported media_position as it is when
\* the state is not "playing" or the position or its timestamp is absent; for a
\* playing snapshot with both it is the position plus the age of the timestamp,
\* and plus nothing when the timestamp does not parse.
C14_PositionEstimator ==
    /\ (\/ snap.state # "playing"
        \/ snap.raw_pos = None
        \/ snap.updated_at.kind = "absent") => snap.current_pos = snap.raw_pos
    /\ (/\ snap.state = "playing"
        /\ snap.raw_pos # None
        /\ snap.updated_at.kind = "iso")
       => snap.current_pos = Some(snap.raw_pos[1] + snap.updated_at.age)
    /\ (/\ snap.state = "playing"
        /\ snap.raw_pos # None
        /\ snap.updated_at.kind = "unparseable") => snap.current_pos = snap.raw_pos

\* A paused snapshot whose position was reported one second ago has been
\* observed and published: the estimate is the reported position.
C14_Witness ==
    /\ snap.state = "paused"
    /\ snap.raw_pos = Some(2)
    /\ snap.updated_at = [kind |-> "iso", age |-> 1]
    /\ snap.current_pos = Some(2)
    /\ last_broadcast_pos = Some(2)

----------------------------------------------------------------------------
(* Claims about what the loop emits and stores *)

\* C15.  Emission ordering: a tick that emits a sync does so while a song is
\* stored, and the latest update emitted before it was for the song key the tick
\* observes; a tick on which both the song key and the options changed emits
\* nothing before its lyric lookup has returned, and then no sync and at most the
\* one update.
C15_EmissionOrdering ==
    [][/\ (pc = "tick" /\ emitted' = "sync")
          => /\ current_state.song # None
             /\ last_update # None
             /\ SongKey(last_update[1].data.artist, last_update[1].data.title)
                    = SongKey(snap'.artist, snap'.title)
             /\ last_update' = last_update
       /\ (/\ pc = "tick"
           /\ outcome' \notin {"no_token", "http_error"}
           /\ snap'.title # <<>>
           /\ Some(SongKey(snap'.artist, snap'.title)) # last_song_key
           /\ options_changed')
          => \/ pc' = "fetch" /\ emitted' = "none"
             \/ pc' # "fetch" /\ emitted' = "update"
       /\ (pc = "fetch" /\ pc' # "fetch") => emitted' \in {"update", "none"}]_vars

\* A sync has been emitted for the second song of the run.
C15_Witness ==
    /\ emitted = "sync"
    /\ last_update # None
    /\ last_update[1].data.title = <<"b">>
    /\ provided # NoFiles
    /\ snap.title = <<"b">>

\* C16 (as claimed).  A provider that does not answer does not block the loop:
\* whenever the loop waits for the provider, it later emits the update.
C16_HungProviderDoesNotBlock == (pc = "fetch") ~> (emitted = "update")

\* C17 (as claimed).  No closed subscriber stays registered for good: a
\* websocket whose endpoint coroutine has ended, the only code that ever calls
\* disconnect() for it, is not in active_connections.
C17_ClosedSubscriberRemoved ==
    \A s \in Sockets : ws_pc[s] \in {"failed", "closed"} => s \notin Registered

\* C18.  An exception raised by a step of a tick is swallowed: the tick ends
\* with nothing emitted and the loop is at the start of its next tick.  When it
\* was raised by the lyric lookup of a song change, the stored state and song
\* key are as before, and the next tick that observes that song takes the
\* song-change branch again.
C18_ErrorsDoNotStopLoop ==
    [][/\ outcome' = "exception" => (pc' = "tick" /\ emitted' = "none")
       /\ (pc = "fetch" /\ outcome' = "exception")
          => Authoritative' = Authoritative
       /\ (/\ pc = "tick"
           /\ outcome = "exception"
           /\ Some(SongKey(snap.artist, snap.title)) # last_song_key
           /\ outcome' \notin {"no_token", "http_error"}
           /\ snap'.title = snap.title
           /\ snap'.artist = snap.artist)
          => (pc' = "fetch" \/ outcome' = "update")]_vars

\* The lyric lookup of a song change has raised while another song was stored.
C18_Witness ==
    /\ outcome = "exception"
    /\ pc = "tick"
    /\ current_state.song # None
    /\ Some(SongKey(snap.artist, snap.title)) # last_song_key

\* C19.  Replay consistency: a song is stored if and only if a song key is, and
\* then the stored position and state are last_broadcast_pos and
\* last_broadcast_state and those of the latest message broadcast, and the
\* stored title, artist, lyrics and options are those of the latest update
\* broadcast.
C19_ReplayConsistency ==
    /\ (last_song_key # None) <=> (current_state.song # None)
    /\ current_state.song # None
       => /\ current_state.song[1].position = last_broadcast_pos
          /\ current_state.song[1].state = last_broadcast_state
          /\ last_song_key = Some(SongKey(current_state.song[1].artist,
                                          current_state.song[1].title))
          /\ message # None
          /\ message[1].data.position = current_state.song[1].position
          /\ message[1].data.state = current_state.song[1].state
          /\ last_update # None
          /\ Metadata(current_state.song[1]) = last_update[1].data
          /\ current_state.options = Some(last_update[1].options)

\* A song is stored whose position a sync has moved, after the options changed.
C19_Witness ==
    /\ emitted = "sync"
    /\ current_state.song # None
    /\ current_state.song[1].position = Some(MaxPos)
    /\ current_state.song[1].lyrics # None
    /\ current_state.options = Some([show_header |-> FALSE])

\* C20.  Mutation only with emission: the stored song, options and song key,
\* last_broadcast_pos and last_broadcast_state change only in a step of the loop
\* that emits an update or a sync, never in a step of connect(), disconnect()
\* or of a broadcast() that is resuming; and a tick emits at most one message:
\* it has emitted nothing when it waits for the provider, and broadcast()
\* emits nothing of its own when it resumes.
C20_MutationOnlyWithEmission ==
    [][/\ Authoritative' # Authoritative
          => /\ pc \in {"tick", "fetch"}
             /\ emitted' \in {"update", "sync"}
             /\ sub_vars' = sub_vars
       /\ pc' = "fetch" => emitted' = "none"
       /\ pc = "bcast" => emitted' = emitted]_vars

\* A silent tick with a client registered: the position has moved on and
\* last_broadcast_pos has not.
C20_Witness ==
    /\ outcome = "silent"
    /\ active_connections # <<>>
    /\ snap.current_pos = Some(1)
    /\ last_broadcast_pos = Some(0)
    /\ current_state.song[1].position = Some(0)

====
